---- MODULE Spec2Model ----
(***************************************************************************)
(* A model of viewplan.py: the catalog reader with its type-code mapping   *)
(* (describe_body), the altitude filter of present_plan, and the           *)
(* west-to-east tour optimizer (optimize_order, path_length).              *)
(*                                                                         *)
(* Lengths are fixed-point numbers, in hundredths of a degree: hypot is    *)
(* the integer square root of 10000 * (dx^2 + dy^2).                       *)
(***************************************************************************)
EXTENDS Integers, Sequences, FiniteSets, TLC

\* ------------------------------------------------------------------------
\* Bounds of the model
\* ------------------------------------------------------------------------

\* The longest catalog prefix that is tried as a target list of its own; the
\* whole catalog is tried as well.
MaxTargets == 12

\* ------------------------------------------------------------------------
\* Program constants
\* ------------------------------------------------------------------------

OPTIMIZATION_SUBDIVIDE_LIMIT == 10

\* ------------------------------------------------------------------------
\* Inputs.  A catalog of bodies, each given by its projected position
\* (x, y) in degrees, in the order of the lines of the file; the altitude
\* windows an observer may ask for; the type subfields a line may carry.
\* On this catalog the fixed-point lengths order the candidate paths the
\* way the floating-point lengths of the program do.
\* ------------------------------------------------------------------------

Body(n, x, y) == [name |-> n, x |-> x, y |-> y]

Catalog ==
    << Body(1, 0, 80),     Body(2, 0, -50),    Body(3, 60, -20),
       Body(4, -20, -30),  Body(5, -20, 50),   Body(6, -20, -40),
       Body(7, -40, -30),  Body(8, 40, 70),    Body(9, 40, -10),
       Body(10, 60, 30),   Body(11, 20, -60),  Body(12, 40, -70),
       Body(13, -20, -60), Body(14, -60, 30),  Body(15, -80, 10),
       Body(16, -40, 60),  Body(17, -20, 80),  Body(18, 40, 40),
       Body(19, 80, 10),   Body(20, -40, 70),  Body(21, 0, 60),
       Body(22, -20, -10), Body(23, 20, 60) >>

\* The target lists present_plan is called with.
TargetLists ==
    { SubSeq(Catalog, 1, k) : k \in 0..MaxTargets } \cup { Catalog }

\* << minalt, maxalt >>, in degrees; << 20, 70 >> is the default.
Windows ==
    { << 20, 70 >>, << 0, 90 >>, << 45, 90 >>, << 20, 45 >>,
      << 10, 70 >>, << 30, 60 >> }

\* What a type field may hold between its '|' separators.
Codes == { "P", "E", "e", "h", "p", "f", "G", "S", "Z", "", "eh", "X" }

\* elements[1].split('|') has at least one element.
SubfieldInputs ==
    { << c >> : c \in Codes } \cup { << c, d >> : c \in Codes, d \in Codes }

\* ------------------------------------------------------------------------
\* State
\* ------------------------------------------------------------------------

VARIABLES
    pc,         \* where the run stands
    targets,    \* present_plan's targets
    minalt,     \* options.minalt
    maxalt,     \* options.maxalt
    located,    \* the list handed to optimize_order, which sorts it in place
    plan,       \* what optimize_order gave back (line 276), with its calls
    again,      \* what a second optimize_order(located) gave back
    subfields,  \* describe_body's argument
    desc        \* what describe_body gave back

vars == << pc, targets, minalt, maxalt, located, plan, again, subfields, desc >>

\* ------------------------------------------------------------------------
\* describe_body
\* ------------------------------------------------------------------------

FIXED_BODY_MAP ==
    [ A |-> "cluster of galaxies", B |-> "binary star",
      C |-> "globular cluster",    D |-> "visual double star",
      F |-> "diffuse nebula",      G |-> "spiral galaxy",
      H |-> "spherical galaxy",    J |-> "radio object",
      K |-> "dark nebula",         L |-> "pulsar",
      M |-> "multiple star",       N |-> "bright nebula",
      O |-> "open cluster",        P |-> "planetary nebula",
      Q |-> "quasar",              R |-> "supernova remnant",
      S |-> "star",                T |-> "stellar object",
      U |-> "nebulous cluster",    V |-> "variable star",
      Y |-> "supernova" ]

\* s in 'ehp': s is a substring of 'ehp', the empty string included.
In_ehp(s) == s \in { "", "e", "h", "p", "eh", "hp", "ehp" }

Described(label) == [raised |-> "", label |-> label]

DescribeRaises(exception) == [raised |-> exception, label |-> ""]

describe_body(sub) ==
    IF sub[1] = "P" THEN Described("planet")
    ELSE IF sub[1] = "E" THEN Described("satellite")
    ELSE IF In_ehp(sub[1]) THEN Described("planetoid")
    ELSE IF sub[1] = "f"
         THEN IF Len(sub) < 2 THEN DescribeRaises("IndexError")
              ELSE IF sub[2] \notin DOMAIN FIXED_BODY_MAP
                   THEN DescribeRaises("KeyError")
                   ELSE Described(FIXED_BODY_MAP[sub[2]])
    ELSE Described("?")

\* ------------------------------------------------------------------------
\* math.hypot, in hundredths of a degree
\* ------------------------------------------------------------------------

Abs(n) == IF n < 0 THEN -n ELSE n

\* Newton's iteration from a guess g at or above the root of n.
RECURSIVE Newton(_, _)
Newton(n, g) ==
    LET h == (g + n \div g) \div 2
    IN  IF h >= g THEN g ELSE Newton(n, h)

\* floor(100 * sqrt(dx^2 + dy^2))
hypot(dx, dy) ==
    LET n == 10000 * (dx * dx + dy * dy)
    IN  IF n = 0 THEN 0 ELSE Newton(n, 100 * (Abs(dx) + Abs(dy)))

\* ------------------------------------------------------------------------
\* The altitude filter of present_plan
\* ------------------------------------------------------------------------

\* The projection puts a body at radius r = 90 - alt from the origin, so
\* its altitude, in hundredths of a degree, is 9000 - 100 r.
Altitude(body) == 9000 - hypot(body.x, body.y)

body_in_altitude_range(body, minAlt, maxAlt) ==
    /\ 100 * maxAlt > Altitude(body)
    /\ Altitude(body) > 100 * minAlt

\* The loop of present_plan: the ((x, y), desc, body) of every target in
\* range, in the order of the targets.  The description is carried along
\* and never read by the optimizer; it is left out.
RECURSIVE Locate(_, _, _)
Locate(tgts, minAlt, maxAlt) ==
    IF tgts = << >> THEN << >>
    ELSE LET body == Head(tgts)
             rest == Locate(Tail(tgts), minAlt, maxAlt)
         IN  IF body_in_altitude_range(body, minAlt, maxAlt)
             THEN << [x |-> body.x, y |-> body.y, body |-> body.name] >> \o rest
             ELSE rest

\* ------------------------------------------------------------------------
\* path_length
\* ------------------------------------------------------------------------

RECURSIVE PathFrom(_, _)
PathFrom(candidate, i) ==
    IF i >= Len(candidate) THEN 0
    ELSE hypot(candidate[i + 1].x - candidate[i].x,
               candidate[i + 1].y - candidate[i].y)
         + PathFrom(candidate, i + 1)

path_length(candidate) == PathFrom(candidate, 1)

\* ------------------------------------------------------------------------
\* located.sort(key = -x): a stable sort, larger x first
\* ------------------------------------------------------------------------

\* A sort that is not stable: e goes ahead of the elements that share its x.
Insert_unstable(sorted, e) ==
    LET k == Cardinality({ i \in 1..Len(sorted) : sorted[i].x > e.x })
    IN  SubSeq(sorted, 1, k) \o << e >> \o SubSeq(sorted, k + 1, Len(sorted))

\* e goes behind every element whose key -x is not above its own.
Insert(sorted, e) ==
    LET k == Cardinality({ i \in 1..Len(sorted) : sorted[i].x >= e.x })
    IN  SubSeq(sorted, 1, k) \o << e >> \o SubSeq(sorted, k + 1, Len(sorted))

RECURSIVE sort(_)
sort(list) ==
    IF list = << >> THEN << >>
    ELSE Insert(sort(SubSeq(list, 1, Len(list) - 1)), list[Len(list)])

\* ------------------------------------------------------------------------
\* optimize_order
\* ------------------------------------------------------------------------

\* What a call gives back: a list, None, or the exception it raised; and,
\* for the claims about the recursion, the calls made, in order: for each
\* the length of its list, the branch taken, and the lengths of the two
\* lists a split hands on.
Returns(list, calls) == [kind |-> "list", val |-> list, calls |-> calls]

ReturnsNone(calls) == [kind |-> "None", val |-> << >>, calls |-> calls]

Raises(exception, calls) == [kind |-> exception, val |-> << >>, calls |-> calls]

NotCalled == [kind |-> "", val |-> << >>, calls |-> << >>]

\* s[:-1]
AllButLast(s) == SubSeq(s, 1, Len(s) - 1)

\* s without its i-th element
RemoveAt(s, i) == SubSeq(s, 1, i - 1) \o SubSeq(s, i + 1, Len(s))

\* e, once v has its value: the loop below has the best so far in hand
\* before it goes on to the next permutation.
Eager(v, e) == IF v = v THEN e ELSE e

\* best_candidate = None, best_length = 1e10.  1e10 is above every length
\* of a path over the catalog, and stays a mark.
NoBest == [candidate |-> << >>, length |-> 0, initial |-> TRUE]

\* A candidate that leaves the two fixed ends out.
Candidate_bare(located0, perm) == perm

\* [located[0]] + list(perm) + [located[-1]]
Candidate(located0, perm) ==
    << located0[1] >> \o perm \o << located0[Len(located0)] >>

\* The comparison turned round: l > best_length.
Better_worse(l, best) == best.initial \/ l > best.length

\* l < best_length
Better(l, best) == best.initial \/ l < best.length

\* Every candidate replaces the best one: the last permutation wins.
Consider_last(located0, perm, best) ==
    LET candidate == Candidate(located0, perm)
    IN  [candidate |-> candidate, length |-> path_length(candidate),
         initial |-> FALSE]

\* The body of the loop over the permutations.
Consider(located0, perm, best) ==
    LET candidate == Candidate(located0, perm)
        l == path_length(candidate)
    IN  IF Better(l, best)
        THEN [candidate |-> candidate, length |-> l, initial |-> FALSE]
        ELSE best

\* for perm in itertools.permutations(middle): the permutations that start
\* with prefix and go on with the elements of rest, from the i-th on in
\* first place, in itertools' order (by position, the earlier first).
RECURSIVE ForPermutations(_, _, _, _, _)
ForPermutations(located0, prefix, rest, i, best) ==
    IF Len(rest) = 0 THEN Consider(located0, prefix, best)
    ELSE IF i > Len(rest) THEN best
    ELSE LET after == ForPermutations(located0, Append(prefix, rest[i]),
                                      RemoveAt(rest, i), 1, best)
         IN  Eager(after, ForPermutations(located0, prefix, rest, i + 1, after))

\* The exhaustive branch.  On an empty list located[0] raises in the one
\* pass of the loop (the empty permutation).
ExhaustiveSearch(located0) ==
    LET call == << [count |-> Len(located0), branch |-> "search",
                    sublists |-> << >>] >>
        middle == SubSeq(located0, 2, Len(located0) - 1)
        best == ForPermutations(located0, << >>, middle, 1, NoBest)
    IN  IF Len(located0) = 0 THEN Raises("IndexError", call)
        ELSE IF best.initial THEN ReturnsNone(call)
        ELSE Returns(best.candidate, call)

\* The remainder in place of the quotient: half = count % 2.
Half_modulo(count) == count % 2

\* half = count // 2
Half(count) == count \div 2

\* optimize_order(a[:-1]) + optimize_order(b): the left call first; an
\* exception of a call ends the whole; None + list is a TypeError.
Plus(call, first, second) ==
    IF first.kind \notin { "list", "None" }
    THEN Raises(first.kind, call \o first.calls)
    ELSE IF second.kind \notin { "list", "None" }
    THEN Raises(second.kind, call \o first.calls \o second.calls)
    ELSE IF first.kind = "None" \/ second.kind = "None"
    THEN Raises("TypeError", call \o first.calls \o second.calls)
    ELSE Returns(first.val \o second.val, call \o first.calls \o second.calls)

RECURSIVE optimize_order(_)
optimize_order(list) ==
    LET located0 == sort(list)
        count == Len(located0)
    IN  IF count > OPTIMIZATION_SUBDIVIDE_LIMIT
        THEN LET half == Half(count)
                 a == SubSeq(located0, 1, half + 1)
                 b == SubSeq(located0, half + 1, count)
                 call == << [count |-> count, branch |-> "split",
                             sublists |-> << Len(AllButLast(a)), Len(b) >>] >>
             IN  Plus(call, optimize_order(AllButLast(a)), optimize_order(b))
        ELSE ExhaustiveSearch(located0)

\* ------------------------------------------------------------------------
\* The planner
\* ------------------------------------------------------------------------

Init ==
    /\ pc = "start"
    /\ targets \in TargetLists
    /\ \E w \in Windows : minalt = w[1] /\ maxalt = w[2]
    /\ located = << >>
    /\ plan = NotCalled
    /\ again = NotCalled
    /\ subfields = << >>
    /\ desc = Described("")

\* present_plan, up to the call of optimize_order (lines 261 to 276).
PresentPlan ==
    /\ pc = "start"
    /\ plan' = optimize_order(Locate(targets, minalt, maxalt))
    /\ located' = sort(Locate(targets, minalt, maxalt))
    /\ pc' = IF plan'.kind \in { "list", "None" } THEN "planned" ELSE "failed"
    /\ UNCHANGED << targets, minalt, maxalt, again, subfields, desc >>

\* optimize_order once more, on the list as the first call left it.
Rerun ==
    /\ pc \in { "planned", "failed" }
    /\ again' = optimize_order(located)
    /\ located' = sort(located)
    /\ pc' = "rerun"
    /\ UNCHANGED << targets, minalt, maxalt, plan, subfields, desc >>

Next == PresentPlan \/ Rerun

Spec == Init /\ [][Next]_vars

\* ------------------------------------------------------------------------
\* The catalog reader's call of describe_body
\* ------------------------------------------------------------------------

InitDescribe ==
    /\ pc = "line"
    /\ subfields \in SubfieldInputs
    /\ desc = Described("")
    /\ targets = << >>
    /\ minalt = 20
    /\ maxalt = 70
    /\ located = << >>
    /\ plan = NotCalled
    /\ again = NotCalled

\* desc = describe_body(subfields), line 83
Describe ==
    /\ pc = "line"
    /\ desc' = describe_body(subfields)
    /\ pc' = IF desc'.raised = "" THEN "described" ELSE "failed"
    /\ UNCHANGED << targets, minalt, maxalt, located, plan, again, subfields >>

NextDescribe == Describe

SpecDescribe == InitDescribe /\ [][NextDescribe]_vars

\* ------------------------------------------------------------------------
\* The claims
\* ------------------------------------------------------------------------

\* The list present_plan hands to optimize_order, before it is sorted.
Input == Locate(targets, minalt, maxalt)

\* The first call of optimize_order is over, the second not yet made.
Ran == pc \in { "planned", "failed" }

Occurrences(e, s) == Cardinality({ i \in 1..Len(s) : s[i] = e })

\* t holds every element of s once and nothing else (the elements of s are
\* distinct bodies).
IsPermutationOf(t, s) ==
    /\ Len(t) = Len(s)
    /\ \A i \in 1..Len(s) : Occurrences(s[i], t) = 1

\* Every ordering of s that keeps its first and its last element in place.
Orderings(s) ==
    { << s[1] >> \o [i \in 1..(Len(s) - 2) |-> s[p[i] + 1]] \o << s[Len(s)] >> :
        p \in Permutations(1..(Len(s) - 2)) }

\* Two neighbours of the sorted list share their x.
HasTies(s) == \E i \in 1..(Len(s) - 1) : s[i].x = s[i + 1].x

\* C1: the tour of a non-empty input is a permutation of the input: every
\* point once, none lost, none twice.
C1_TourIsPermutation ==
    (Ran /\ Input # << >>) =>
        (plan.kind = "list" /\ IsPermutationOf(plan.val, Input))

\* C2: an input of 0, 1 or 2 points comes back as the input sorted by
\* descending x, the same length and content.
C2_SmallInputComesBackSorted ==
    (Ran /\ Len(Input) <= 2) =>
        (plan.kind = "list" /\ plan.val = located)

\* C3: when no target passes the altitude filter the call raises nothing
\* and the plan is the empty list.
C3_EmptyInputGivesEmptyPlan ==
    (Ran /\ Input = << >>) =>
        (plan.kind = "list" /\ plan.val = << >>)

\* C4: the tour of a non-empty input starts with the first and ends with
\* the last element of the descending-x sort, whatever the splitting.
C4_EndpointsKept ==
    (Ran /\ Input # << >>) =>
        /\ plan.kind = "list"
        /\ plan.val # << >>
        /\ plan.val[1] = located[1]
        /\ plan.val[Len(plan.val)] = located[Len(located)]

\* A list above the limit was split, its interior came back reordered and
\* its two ends are where the sort put them.
C4_Witness ==
    /\ pc = "planned"
    /\ Len(located) > OPTIMIZATION_SUBDIVIDE_LIMIT
    /\ plan.val # located
    /\ plan.val[1] = located[1]
    /\ plan.val[Len(plan.val)] = located[Len(located)]

\* C5: for 2 to 10 points the tour is one of the orderings that keep the
\* two ends of the sort in place, none of them is shorter, and it is not
\* longer than the sorted order itself.
C5_ExhaustiveIsShortest ==
    (Ran /\ Len(Input) >= 2 /\ Len(Input) <= OPTIMIZATION_SUBDIVIDE_LIMIT) =>
        /\ plan.kind = "list"
        /\ plan.val \in Orderings(located)
        /\ \A c \in Orderings(located) :
               path_length(plan.val) <= path_length(c)
        /\ path_length(plan.val) <= path_length(located)

\* The search found an ordering strictly shorter than the sorted one.
C5_Witness ==
    /\ pc = "planned"
    /\ Len(located) >= 4
    /\ Len(located) <= OPTIMIZATION_SUBDIVIDE_LIMIT
    /\ plan.val \in Orderings(located)
    /\ path_length(plan.val) < path_length(located)

\* C6: in every call, the first and the nested ones, the exhaustive search
\* runs on at most 10 points, a longer list is split, and both lists a
\* split hands on are strictly shorter than the list that was split.
C6_SearchStaysUnderLimit ==
    Ran =>
        \A i \in 1..Len(plan.calls) :
            LET call == plan.calls[i]
            IN  /\ call.branch = "search" =>
                       call.count <= OPTIMIZATION_SUBDIVIDE_LIMIT
                /\ call.count > OPTIMIZATION_SUBDIVIDE_LIMIT =>
                       call.branch = "split"
                /\ call.branch = "split" =>
                       \A j \in 1..Len(call.sublists) :
                           call.sublists[j] < call.count

\* A call made by a split has split its own list again, and a list of 6
\* points or more has been searched.
C6_Witness ==
    /\ pc = "planned"
    /\ plan.kind = "list"
    /\ \E i \in 2..Len(plan.calls) : plan.calls[i].branch = "split"
    /\ \E i \in 1..Len(plan.calls) :
           /\ plan.calls[i].branch = "search"
           /\ plan.calls[i].count >= 6

\* C8: the second run, on the list as the first run left it, gives the
\* tour the first run gave, also when points share their x.
C8_SecondRunSameTour ==
    pc = "rerun" => (again.kind = plan.kind /\ again.val = plan.val)

\* Both runs are over, on a list above the limit with shared x.
C8_Witness ==
    /\ pc = "rerun"
    /\ plan.kind = "list"
    /\ Len(located) > OPTIMIZATION_SUBDIVIDE_LIMIT
    /\ HasTies(located)
    /\ plan.val # located
    /\ again.val = plan.val

\* The split step as the claim C9 has it: the pivot is part of the first
\* half while that half is optimized, and is dropped from the end of its
\* solved tour.
RECURSIVE PivotKeptTour(_)
PivotKeptTour(sorted) ==
    LET count == Len(sorted)
        half == count \div 2
    IN  IF count > OPTIMIZATION_SUBDIVIDE_LIMIT
        THEN AllButLast(PivotKeptTour(SubSeq(sorted, 1, half + 1)))
                 \o PivotKeptTour(SubSeq(sorted, half + 1, count))
        ELSE ExhaustiveSearch(sorted).val

\* C9: above 10 points the tour is the one of the split step that
\* optimizes the first half with the pivot as its fixed last point.
C9_PivotInFirstHalf ==
    (Ran /\ Len(Input) > OPTIMIZATION_SUBDIVIDE_LIMIT) =>
        (plan.kind = "list" /\ plan.val = PivotKeptTour(located))

\* C10: for 2 points or more the tour is not longer than the plain
\* descending-x order of the same points.
C10_NotLongerThanSort ==
    (Ran /\ Len(Input) >= 2) =>
        (plan.kind = "list" /\ path_length(plan.val) <= path_length(located))

\* A list above the limit came back strictly shorter than its sort.
C10_Witness ==
    /\ pc = "planned"
    /\ Len(located) > OPTIMIZATION_SUBDIVIDE_LIMIT
    /\ IsPermutationOf(plan.val, located)
    /\ path_length(plan.val) < path_length(located)

\* The label the claim C7 gives a type field.
ClaimedLabel(sub) ==
    IF sub[1] = "P" THEN "planet"
    ELSE IF sub[1] = "E" THEN "satellite"
    ELSE IF sub[1] \in { "e", "h", "p" } THEN "planetoid"
    ELSE IF sub[1] = "f" /\ Len(sub) >= 2 /\ sub[2] \in DOMAIN FIXED_BODY_MAP
    THEN FIXED_BODY_MAP[sub[2]]
    ELSE "?"

\* C7: describe_body raises on no code: P, E, e, h, p and f with a listed
\* subtype get their labels, every other code gets "?".
C7_EveryCodeLabelled ==
    (pc \in { "described", "failed" }) => desc = Described(ClaimedLabel(subfields))

====
